---- MODULE Spec2Model ----
(***************************************************************************)
(* Model of warehouse/synchronize/commands.py: the PyPI synchronizer.      *)
(*                                                                         *)
(* Python values are tagged records [t, v]: t is "str", "list" or "none".  *)
(* A Python string is the tuple of its characters (one-character strings), *)
(* so that split(), strip() and sort() are computed, not assumed.          *)
(* A Python dict is a function from its keys to its values.                *)
(***************************************************************************)
EXTENDS Integers, Sequences, FiniteSets, TLC

(***************************************************************************)
(* Bounds of the model.                                                    *)
(***************************************************************************)
\* size of the green pool, scaled down from the 100 of commands.py:157 so
\* that a catalog of three packages fills it
PoolSize == 2

(***************************************************************************)
(* Python values.                                                          *)
(***************************************************************************)
None == [t |-> "none", v |-> <<>>]
S(chars) == [t |-> "str", v |-> chars]
L(items) == [t |-> "list", v |-> items]

EmptyDict == [k \in {} |-> None]

\* dict.get(key, default)
Get(d, key, default) == IF key \in DOMAIN d THEN d[key] ELSE default

\* d[key] = value
Put(d, key, value) == [k \in DOMAIN d \cup {key} |-> IF k = key THEN value ELSE d[k]]

\* Python truthiness of a value
Truthy(x) == x.t # "none" /\ x.v # <<>>

Range(s) == {s[i] : i \in DOMAIN s}

\* The characters the modelled strings use, in code point order.
Chars == <<" ", ",", ".", "0", "1", "2", "A", "B", "D", "E", "H", "I", "K",
           "M", "N", "O", "T", "U", "W", "Z", "a", "b", "c", "d", "e", "g",
           "h", "i", "k", "m", "n", "o", "p", "r", "s", "t", "u", "x", "y">>

Ord(c) == CHOOSE i \in DOMAIN Chars : Chars[i] = c

IsSpace(c) == c = " "

\* unicode.__lt__: lexicographic by code point
RECURSIVE StrLess(_, _)
StrLess(a, b) ==
    IF b = <<>> THEN FALSE
    ELSE IF a = <<>> THEN TRUE
    ELSE IF Head(a) = Head(b) THEN StrLess(Tail(a), Tail(b))
    ELSE Ord(Head(a)) < Ord(Head(b))

\* str.strip()
RECURSIVE LStrip(_)
LStrip(s) == IF s # <<>> /\ IsSpace(Head(s)) THEN LStrip(Tail(s)) ELSE s

RECURSIVE RStrip(_)
RStrip(s) ==
    IF s # <<>> /\ IsSpace(s[Len(s)]) THEN RStrip(SubSeq(s, 1, Len(s) - 1)) ELSE s

Strip(s) == RStrip(LStrip(s))

\* str.split(sep): every occurrence of sep separates two parts
RECURSIVE SplitOn(_, _)
SplitOn(s, sep) ==
    IF \A i \in DOMAIN s : s[i] # sep THEN <<s>>
    ELSE LET i == CHOOSE k \in DOMAIN s : s[k] = sep /\ \A m \in 1..(k - 1) : s[m] # sep
         IN  <<SubSeq(s, 1, i - 1)>> \o SplitOn(SubSeq(s, i + 1, Len(s)), sep)

\* str.split(None): runs of whitespace separate, empty parts are dropped
RECURSIVE SplitSpace(_)
SplitSpace(s) ==
    LET t == LStrip(s)
    IN  IF t = <<>> THEN <<>>
        ELSE IF \A i \in DOMAIN t : ~IsSpace(t[i]) THEN <<t>>
        ELSE LET i == CHOOSE k \in DOMAIN t : IsSpace(t[k]) /\ \A m \in 1..(k - 1) : ~IsSpace(t[m])
             IN  <<SubSeq(t, 1, i - 1)>> \o SplitSpace(SubSeq(t, i + 1, Len(t)))

\* list.sort() of list(set(items))
RECURSIVE SortedSet(_)
SortedSet(items) ==
    IF items = {} THEN <<>>
    ELSE LET m == CHOOSE x \in items : \A y \in items \ {x} : StrLess(x, y)
         IN  <<m>> \o SortedSet(items \ {m})

\* [f(x) for x in xs if p(x)] for the two comprehensions of store()
RECURSIVE StripAll(_)
StripAll(xs) == IF xs = <<>> THEN <<>> ELSE <<Strip(Head(xs))>> \o StripAll(Tail(xs))

RECURSIVE StripNonEmpty(_)
StripNonEmpty(xs) ==
    IF xs = <<>> THEN <<>>
    ELSE (IF Strip(Head(xs)) # <<>> THEN <<Strip(Head(xs))>> ELSE <<>>)
         \o StripNonEmpty(Tail(xs))

(***************************************************************************)
(* filter_dict and PyPIFetcher.version: the normalizer.                    *)
(***************************************************************************)
SentinelNone == <<"N", "o", "n", "e">>
SentinelUnknown == <<"U", "N", "K", "N", "O", "W", "N">>

RequiredKeys == {"name", "version"}

AllowedKeys == {"name", "version", "summary", "description", "author",
                "author_email", "maintainer", "maintainer_email", "license",
                "requires_python", "requires_external", "bugtrack_url",
                "home_page", "project_url", "keywords", "download_url"}

\* filter_dict that drops the sentinels of required keys too
Kept_NoRequired(d, required) ==
    {key \in DOMAIN d :
        /\ d[key].t # "none"
        /\ ~(d[key].t = "str" /\ d[key].v \in {SentinelNone, SentinelUnknown})
        /\ ~(d[key].t \in {"str", "list"} /\ d[key].v = <<>>)}

\* filter_dict without basestring in the isinstance of line 27
Kept_KeepEmptyStr(d, required) ==
    {key \in DOMAIN d :
        /\ d[key].t # "none"
        /\ ~(key \notin required /\ d[key].t = "str"
             /\ d[key].v \in {SentinelNone, SentinelUnknown})
        /\ ~(d[key].t = "list" /\ d[key].v = <<>>)}

\* the keys filter_dict keeps
Kept(d, required) ==
    {key \in DOMAIN d :
        /\ d[key].t # "none"
        /\ ~(key \notin required /\ d[key].t = "str"
             /\ d[key].v \in {SentinelNone, SentinelUnknown})
        /\ ~(d[key].t \in {"str", "list"} /\ d[key].v = <<>>)}

filter_dict(d, required) == [key \in Kept(d, required) |-> d[key]]

\* the body of PyPIFetcher.version after the release_data call
Normalize(raw) ==
    LET data == filter_dict(raw, RequiredKeys)
        cls  == L(SortedSet(Range(Get(data, "classifiers", L(<<>>)).v)))
        full == Put(data, "classifiers", cls)
    IN  [key \in DOMAIN full \cap AllowedKeys |-> full[key]]

(***************************************************************************)
(* The persistence layer: db is the committed state, a session holds the   *)
(* rows it has flushed but not committed.  A table is a function from row  *)
(* ids to rows; a session sees its own rows over the committed ones.       *)
(***************************************************************************)
EmptyTables == [projects |-> <<>>, versions |-> <<>>]

View(ses, base) == [projects |-> ses.projects @@ base.projects,
                    versions |-> ses.versions @@ base.versions]

\* the id the database gives the next row of a table
NextId(used) == IF used = {} THEN 1 ELSE 1 + CHOOSE m \in used : \A n \in used : n <= m

\* Query.one(): the matching ids, and the exception for a count other than 1
OneExc(ids) ==
    IF ids = {} THEN "NoResultFound"
    ELSE IF Cardinality(ids) > 1 THEN "MultipleResultsFound" ELSE ""

ProjectIds(tables, name) == {i \in DOMAIN tables.projects : tables.projects[i].name = name}

VersionIds(tables, pid, ver) ==
    {i \in DOMAIN tables.versions :
        tables.versions[i].project = pid /\ tables.versions[i].version = ver}

\* the result of a store operation: the exception it raised ("" for none),
\* the session it leaves and the row ids it returns
Result(exc, ses, pid, vid) == [exc |-> exc, ses |-> ses, pid |-> pid, vid |-> vid]

\* store_project without the lookup of line 85
store_project_NoLookup(ses, base, used, name) ==
    Result("", [ses EXCEPT !.projects = (NextId(used.projects) :> [name |-> name]) @@ @],
           NextId(used.projects), 0)

\* store_project(name); used holds the ids taken in any session
store_project(ses, base, used, name) ==
    LET found == ProjectIds(View(ses, base), name)
        new   == NextId(used.projects)
    IN  IF OneExc(found) = ""
        THEN Result("", ses, CHOOSE i \in found : TRUE, 0)
        ELSE IF OneExc(found) = "NoResultFound"
        THEN Result("", [ses EXCEPT !.projects = (new :> [name |-> name]) @@ @], new, 0)
        ELSE Result(OneExc(found), ses, 0, 0)

\* Version(project=project, version=version): every other column is unset
NewVersion(pid, ver) ==
    [project |-> pid, version |-> ver, summary |-> None, description |-> None,
     author |-> None, author_email |-> None, maintainer |-> None,
     maintainer_email |-> None, license |-> None, requires_python |-> None,
     requires_external |-> None, keywords |-> None, uris |-> None,
     download_uri |-> None]

\* lines 105-123: the scalar attributes and the keywords
MergeScalars(row, release) ==
    LET kw    == Get(release, "keywords", S(<<>>)).v
        parts == IF "," \in Range(kw) THEN SplitOn(kw, ",") ELSE SplitSpace(kw)
    IN  [row EXCEPT
            !.summary = Get(release, "summary", S(<<>>)),
            !.description = Get(release, "description", S(<<>>)),
            !.author = Get(release, "author", S(<<>>)),
            !.author_email = Get(release, "author_email", S(<<>>)),
            !.maintainer = Get(release, "maintainer", S(<<>>)),
            !.maintainer_email = Get(release, "maintainer_email", S(<<>>)),
            !.license = Get(release, "maintainer", S(<<>>)),
            !.requires_python = Get(release, "requires_python", S(<<>>)),
            !.requires_external = Get(release, "requires_external", L(<<>>)),
            !.keywords = L(StripNonEmpty(parts))]

Bugtracker == <<"B", "u", "g", "t", "r", "a", "c", "k", "e", "r">>
HomePage == <<"H", "o", "m", "e", " ", "p", "a", "g", "e">>

\* lines 134-137: the loop over project_url; the unpacking raises ValueError
\* when a purl does not split into exactly two parts
RECURSIVE ProjectUrls(_, _)
ProjectUrls(uris, purls) ==
    IF purls = <<>> THEN [exc |-> "", uris |-> uris]
    ELSE LET parts == StripAll(SplitOn(Head(purls), ","))
         IN  IF Len(parts) # 2 THEN [exc |-> "ValueError", uris |-> uris]
             ELSE ProjectUrls(Put(uris, parts[1], parts[2]), Tail(purls))

\* a dict value
D(dict) == [t |-> "dict", v |-> dict]

\* lines 126-137: the uris dict and the exception raised while building it
BuildUris(release) ==
    LET u0 == EmptyDict
        u1 == IF Truthy(Get(release, "bugtrack_url", None))
              THEN Put(u0, Bugtracker, release["bugtrack_url"].v) ELSE u0
        u2 == IF Truthy(Get(release, "home_page", None))
              THEN Put(u1, HomePage, release["home_page"].v) ELSE u1
    IN  IF Truthy(Get(release, "project_url", None))
        THEN ProjectUrls(u2, release["project_url"].v)
        ELSE [exc |-> "", uris |-> u2]

\* a changed row becomes a pending write of the session
WriteVersion(ses, base, vid, row) ==
    IF vid \in DOMAIN View(ses, base).versions /\ View(ses, base).versions[vid] = row
    THEN ses
    ELSE [ses EXCEPT !.versions = (vid :> row) @@ @]

\* store(release)
store(ses, base, used, release) ==
    IF "name" \notin DOMAIN release THEN Result("KeyError", ses, 0, 0)
    ELSE
    LET p == store_project(ses, base, used, release["name"].v)
    IN  IF p.exc # "" THEN p
        ELSE IF "version" \notin DOMAIN release THEN Result("KeyError", p.ses, p.pid, 0)
        ELSE
        LET ver   == release["version"].v
            found == VersionIds(View(p.ses, base), p.pid, ver)
            vid   == IF found = {} THEN NextId(used.versions) ELSE CHOOSE i \in found : TRUE
            row0  == IF found = {} THEN NewVersion(p.pid, ver)
                     ELSE View(p.ses, base).versions[vid]
            ses1  == IF found = {}
                     THEN [p.ses EXCEPT !.versions = (vid :> row0) @@ @] ELSE p.ses
            row1  == MergeScalars(row0, release)
            uris  == BuildUris(release)
        IN  IF OneExc(found) = "MultipleResultsFound"
            THEN Result("MultipleResultsFound", p.ses, p.pid, 0)
            ELSE IF uris.exc # ""
            THEN Result("ValueError", WriteVersion(ses1, base, vid, row1), p.pid, vid)
            ELSE Result("", WriteVersion(ses1, base, vid,
                                [row1 EXCEPT !.uris = D(uris.uris),
                                             !.download_uri = Get(release, "download_url", S(<<>>))]),
                        p.pid, vid)

(***************************************************************************)
(* The remote catalog: what the three XML-RPC calls of PyPIFetcher return. *)
(***************************************************************************)
PkgA == <<"a">>
PkgB == <<"b">>
PkgC == <<"c">>
Ver1 == <<"1">>
Ver2 == <<"2">>

\* a release with every kind of field: a sentinel, a null, unsorted and
\* repeated classifiers, a license that differs from the maintainer
RawFull(n, v) ==
    [name |-> S(n), version |-> S(v),
     summary |-> S(<<"s", "u", "m">>), description |-> None,
     author |-> S(SentinelUnknown),
     maintainer |-> S(<<"b", "o", "b">>), license |-> S(<<"M", "I", "T">>),
     classifiers |-> L(<< <<"T", " ", "Z">>, <<"T", " ", "A">>, <<"T", " ", "A">> >>),
     keywords |-> S(<<"w", "e", "b", ",", " ", "a", "p", "i">>),
     home_page |-> S(<<"h", ".", "x">>),
     project_url |-> L(<< <<"D", "o", "c", "s", ",", " ", "d", ".", "x">> >>),
     download_url |-> S(<<"d", "e", "x">>)]

RawPlain(n, v) == [name |-> S(n), version |-> S(v), requires_external |-> L(<<>>)]

\* records that lack a required key
RawNoName(v) == [version |-> S(v), summary |-> S(<<"s", "u", "m">>)]
RawNoVersion(n) == [name |-> S(n), summary |-> S(<<"s", "u", "m">>)]

\* a project_url whose URL holds a comma
RawBadUrl(n, v) ==
    [name |-> S(n), version |-> S(v),
     project_url |-> L(<< <<"D", "o", "c", "s", ",", "d", ",", "x">> >>)]

\* a project_url whose URL part is blank
RawBlankUrl(n, v) ==
    [name |-> S(n), version |-> S(v),
     home_page |-> S(<<"h", ".", "x">>),
     project_url |-> L(<< <<"D", "o", "c", "s", ",">> >>)]

Catalog(packages, releases, data) ==
    [packages |-> packages, releases |-> releases, data |-> data]

CatalogGood ==
    Catalog(<<PkgA, PkgB, PkgC>>,
            (PkgA :> <<Ver1, Ver2>>) @@ (PkgB :> <<Ver1>>) @@ (PkgC :> <<>>),
            (<<PkgA, Ver1>> :> RawFull(PkgA, Ver1)) @@ (<<PkgA, Ver2>> :> RawPlain(PkgA, Ver2))
            @@ (<<PkgB, Ver1>> :> RawFull(PkgB, Ver1)))

CatalogNoVersion ==
    Catalog(<<PkgA, PkgB, PkgC>>,
            (PkgA :> <<Ver1>>) @@ (PkgB :> <<Ver1, Ver2>>) @@ (PkgC :> <<Ver1>>),
            (<<PkgA, Ver1>> :> RawFull(PkgA, Ver1)) @@ (<<PkgB, Ver1>> :> RawPlain(PkgB, Ver1))
            @@ (<<PkgB, Ver2>> :> RawNoVersion(PkgB)) @@ (<<PkgC, Ver1>> :> RawPlain(PkgC, Ver1)))

CatalogBadUrl ==
    Catalog(<<PkgA, PkgB, PkgC>>,
            (PkgA :> <<Ver1, Ver2>>) @@ (PkgB :> <<>>) @@ (PkgC :> <<Ver1>>),
            (<<PkgA, Ver1>> :> RawPlain(PkgA, Ver1)) @@ (<<PkgA, Ver2>> :> RawBadUrl(PkgA, Ver2))
            @@ (<<PkgC, Ver1>> :> RawNoName(Ver1)))

\* list_packages() names a package twice
CatalogRepeat ==
    Catalog(<<PkgA, PkgB, PkgA, PkgC>>,
            (PkgA :> <<Ver1>>) @@ (PkgB :> <<>>) @@ (PkgC :> <<Ver1>>),
            (<<PkgA, Ver1>> :> RawFull(PkgA, Ver1))
            @@ (<<PkgC, Ver1>> :> RawBlankUrl(PkgC, Ver1)))

Catalogs == {CatalogGood, CatalogNoVersion, CatalogBadUrl, CatalogRepeat}

\* client.release_data(project, version): an empty mapping for no data
release_data(cat, project, ver) ==
    IF <<project, ver>> \in DOMAIN cat.data THEN cat.data[<<project, ver>>] ELSE EmptyDict

\* client.package_releases(project, True)
package_releases(cat, project) ==
    IF project \in DOMAIN cat.releases THEN cat.releases[project] ELSE <<>>

\* PyPIFetcher.version(project, version)
PyPIFetcher_version(cat, project, ver) == Normalize(release_data(cat, project, ver))

\* PyPIFetcher.project(project)
PyPIFetcher_project(cat, project) ==
    LET versions == package_releases(cat, project)
    IN  [i \in DOMAIN versions |-> PyPIFetcher_version(cat, project, versions[i])]

(***************************************************************************)
(* State.  A process is one Python process with its own db.session; it may *)
(* call syncer() any number of times.                                      *)
(***************************************************************************)
VARIABLES
    remote,     \* the catalog the remote index serves
    db,         \* the committed tables
    session,    \* session[p]: the rows process p flushed and did not commit
    sync,       \* sync[p]: the position and the locals of syncer() in p
    live,       \* the processes that run
    tainted,    \* tainted[p]: pending Version rows written by a failed unit
    leaked,     \* Version rows committed while they were tainted
    pure        \* one raw record on its way through version() and store()

vars == <<remote, db, session, sync, live, tainted, leaked, pure>>

Procs == {1, 2}

\* syncer() is not running
IdleSync ==
    [pc |-> "idle", project |-> None, version |-> None, fetcher |-> FALSE,
     rpc |-> FALSE, projects |-> <<>>, status |-> <<>>, taken |-> 0, j |-> 0,
     f |-> 0, exc |-> "", blocked |-> {}]

\* an exception leaves syncer()
Raise(s, exc) == [s EXCEPT !.pc = "raised", !.exc = exc]

\* syncer with the argument check after the fetcher and the project list
Enter_CheckLast(cat, project, version) ==
    LET s == [IdleSync EXCEPT !.project = project, !.version = version,
                              !.fetcher = TRUE, !.rpc = (project = None),
                              !.projects = IF project # None THEN <<project.v>>
                                           ELSE cat.packages]
    IN  IF project = None /\ version # None
        THEN Raise(s, "TypeError")
        ELSE [s EXCEPT !.pc = IF version = None THEN "pool" ELSE "single"]

\* lines 148-154: the argument check, the fetcher and the list of projects
Enter(cat, project, version) ==
    LET s == [IdleSync EXCEPT !.project = project, !.version = version]
    IN  IF project = None /\ version # None
        THEN Raise(s, "TypeError")
        ELSE [s EXCEPT !.fetcher = TRUE,
                       !.rpc = (project = None),
                       !.projects = IF project # None THEN <<project.v>> ELSE cat.packages,
                       !.pc = IF version = None THEN "pool" ELSE "single"]

\* the arguments a caller passes
ArgProjects == {None} \cup {S(n) : n \in Range(remote.packages)}
ArgVersions == {None, S(Ver1), S(Ver2)}

Callable(p) == p \in live /\ sync[p].pc \in {"idle", "done", "raised"}

\* the row ids taken in the committed tables or in any session
Used ==
    [projects |-> DOMAIN db.projects \cup UNION {DOMAIN session[q].projects : q \in Procs},
     versions |-> DOMAIN db.versions \cup UNION {DOMAIN session[q].versions : q \in Procs}]

\* the fetches of the pool that have started and not finished
InFlight(s) == {i \in DOMAIN s.status : s.status[i] = "running"}

\* a pool that starts a task whenever one is left
CanSpawn_NoLimit(s) == Len(s.status) < Len(s.projects)

\* GreenPool(100).imap: a task starts when the pool has a free slot and the
\* queue of results not yet taken has room for the task before it
CanSpawn(s) ==
    /\ Len(s.status) < Len(s.projects)
    /\ Cardinality(InFlight(s)) < PoolSize
    /\ Len(s.status) - s.taken <= PoolSize

\* a commit that also deletes the projects the remote no longer lists
Commit_Prune(p) ==
    LET all  == View(session[p], db)
        keep == {i \in DOMAIN all.projects :
                    all.projects[i].name \in Range(remote.packages)}
    IN  /\ db' = [projects |-> [i \in keep |-> all.projects[i]],
                  versions |-> [i \in {v \in DOMAIN all.versions :
                                            all.versions[v].project \in keep}
                                |-> all.versions[i]]]
        /\ session' = [session EXCEPT ![p] = EmptyTables]
        /\ leaked' = leaked \cup tainted[p]
        /\ tainted' = [tainted EXCEPT ![p] = {}]

\* db.session.commit()
Commit(p) ==
    /\ db' = View(session[p], db)
    /\ session' = [session EXCEPT ![p] = EmptyTables]
    /\ leaked' = leaked \cup tainted[p]
    /\ tainted' = [tainted EXCEPT ![p] = {}]

\* the releases imap yielded last
Releases(s) == PyPIFetcher_project(remote, s.projects[s.taken])

\* p is about to call store or store_project
AtStore(p) ==
    \/ sync[p].pc = "storing" /\ sync[p].j <= Len(Releases(sync[p]))
    \/ sync[p].pc = "final" /\ sync[p].f <= Len(sync[p].projects)
    \/ sync[p].pc = "single"

\* the store operation p is about to do, and its result
StepStore(p) ==
    IF sync[p].pc = "storing"
    THEN store(session[p], db, Used, Releases(sync[p])[sync[p].j])
    ELSE IF sync[p].pc = "final"
    THEN store_project(session[p], db, Used, sync[p].projects[sync[p].f])
    ELSE store(session[p], db, Used,
               PyPIFetcher_version(remote, sync[p].project.v, sync[p].version.v))

\* the unique keys of the tables: the name of a Project, the project and
\* the version of a Version
ProjectKey(row) == [kind |-> "project", name |-> row.name, pid |-> 0, ver |-> <<>>]
VersionKey(row) == [kind |-> "version", name |-> <<>>, pid |-> row.project, ver |-> row.version]

\* the keys of the rows a session has inserted over base
InsertedKeys(ses, base) ==
    {ProjectKey(ses.projects[i]) : i \in DOMAIN ses.projects \ DOMAIN base.projects}
    \cup {VersionKey(ses.versions[i]) : i \in DOMAIN ses.versions \ DOMAIN base.versions}

\* the keys of the rows the next store operation of p inserts
StepKeys(p) == InsertedKeys(StepStore(p).ses, View(session[p], db))

\* the keys other sessions have inserted and not committed
PendingKeys(p) == UNION {InsertedKeys(session[q], db) : q \in Procs \ {p}}

\* the flush of p waits for the transaction that holds one of its keys
Waits(p) == sync[p].blocked # {} \/ StepKeys(p) \cap PendingKeys(p) # {}

(***************************************************************************)
(* Actions.                                                                *)
(***************************************************************************)
\* syncer(project, version) is called: lines 147-154
syncer_call(p, project, version) ==
    /\ Callable(p)
    /\ sync' = [sync EXCEPT ![p] = Enter(remote, project, version)]
    /\ UNCHANGED <<pure, remote, db, session, live, tainted, leaked>>

\* line 154: fetcher.packages() raises
syncer_packages_raises(p) ==
    /\ Callable(p)
    /\ sync' = [sync EXCEPT ![p] =
                    Raise([IdleSync EXCEPT !.fetcher = TRUE, !.rpc = TRUE], "TransportError")]
    /\ UNCHANGED <<pure, remote, db, session, live, tainted, leaked>>

\* line 159: the pool starts fetcher.project for the next project
pool_spawn(p) ==
    /\ p \in live
    /\ sync[p].pc \in {"pool", "storing"}
    /\ CanSpawn(sync[p])
    /\ sync' = [sync EXCEPT ![p].status = Append(@, "running"), ![p].rpc = TRUE]
    /\ UNCHANGED <<pure, remote, db, session, live, tainted, leaked>>

\* a fetch whose green thread stores the project itself when it returns
fetch_returns_Stores(p) ==
    /\ p \in live
    /\ sync[p].pc \in {"pool", "storing"}
    /\ \E i \in InFlight(sync[p]) :
          /\ sync' = [sync EXCEPT ![p].status[i] = "ok"]
          /\ session' = [session EXCEPT ![p] =
                store_project(session[p], db, Used, sync[p].projects[i]).ses]
    /\ UNCHANGED <<pure, remote, db, live, tainted, leaked>>

\* fetcher.project returns in its green thread
fetch_returns(p) ==
    /\ p \in live
    /\ sync[p].pc \in {"pool", "storing"}
    /\ \E i \in InFlight(sync[p]) : sync' = [sync EXCEPT ![p].status[i] = "ok"]
    /\ UNCHANGED <<pure, remote, db, session, live, tainted, leaked>>

\* fetcher.project raises in its green thread
fetch_raises(p) ==
    /\ p \in live
    /\ sync[p].pc \in {"pool", "storing"}
    /\ \E i \in InFlight(sync[p]) : sync' = [sync EXCEPT ![p].status[i] = "err"]
    /\ UNCHANGED <<pure, remote, db, session, live, tainted, leaked>>

\* line 159: imap yields the releases of the next project, in order
imap_next(p) ==
    /\ p \in live
    /\ sync[p].pc = "pool"
    /\ sync[p].taken < Len(sync[p].status)
    /\ sync[p].status[sync[p].taken + 1] = "ok"
    /\ sync' = [sync EXCEPT ![p].pc = "storing", ![p].taken = @ + 1, ![p].j = 1]
    /\ UNCHANGED <<pure, remote, db, session, live, tainted, leaked>>

\* line 159: imap re-raises the exception of the next project's fetch
imap_raises(p) ==
    /\ p \in live
    /\ sync[p].pc = "pool"
    /\ sync[p].taken < Len(sync[p].status)
    /\ sync[p].status[sync[p].taken + 1] = "err"
    /\ sync' = [sync EXCEPT ![p] = Raise(@, "TransportError")]
    /\ UNCHANGED <<pure, remote, db, session, live, tainted, leaked>>

\* lines 161-162: store(release) returns
syncer_store(p) ==
    /\ p \in live
    /\ sync[p].pc = "storing"
    /\ sync[p].j <= Len(Releases(sync[p]))
    /\ ~Waits(p)
    /\ LET r == StepStore(p)
       IN  /\ r.exc = ""
           /\ session' = [session EXCEPT ![p] = r.ses]
           /\ tainted' = [tainted EXCEPT ![p] = @ \ {r.vid}]
    /\ sync' = [sync EXCEPT ![p].j = @ + 1]
    /\ UNCHANGED <<pure, remote, db, live, leaked>>

\* lines 161-162: store(release) raises; nothing rolls the session back
syncer_store_raises(p) ==
    /\ p \in live
    /\ sync[p].pc = "storing"
    /\ sync[p].j <= Len(Releases(sync[p]))
    /\ ~Waits(p)
    /\ LET r == StepStore(p)
       IN  /\ r.exc # ""
           /\ session' = [session EXCEPT ![p] = r.ses]
           /\ tainted' = [tainted EXCEPT ![p] = DOMAIN r.ses.versions]
           /\ sync' = [sync EXCEPT ![p] = Raise(@, r.exc)]
    /\ UNCHANGED <<pure, remote, db, live, leaked>>

\* line 167: the commit after the releases of one project
syncer_commit_project(p) ==
    /\ p \in live
    /\ sync[p].pc = "storing"
    /\ sync[p].j > Len(Releases(sync[p]))
    /\ Commit(p)
    /\ sync' = [sync EXCEPT ![p].pc = "pool"]
    /\ UNCHANGED <<pure, remote, live>>

\* line 159: imap is exhausted
imap_stops(p) ==
    /\ p \in live
    /\ sync[p].pc = "pool"
    /\ sync[p].taken = Len(sync[p].projects)
    /\ sync' = [sync EXCEPT ![p].pc = "final", ![p].f = 1]
    /\ UNCHANGED <<pure, remote, db, session, live, tainted, leaked>>

\* a final pass that creates nothing
syncer_final_pass_Skip(p) ==
    /\ p \in live
    /\ sync[p].pc = "final"
    /\ sync[p].f <= Len(sync[p].projects)
    /\ sync' = [sync EXCEPT ![p].f = @ + 1]
    /\ UNCHANGED <<pure, remote, db, session, live, tainted, leaked>>

\* lines 170-171: store_project for the next project of the final pass
syncer_final_pass(p) ==
    /\ p \in live
    /\ sync[p].pc = "final"
    /\ sync[p].f <= Len(sync[p].projects)
    /\ ~Waits(p)
    /\ LET r == StepStore(p)
       IN  /\ session' = [session EXCEPT ![p] = r.ses]
           /\ sync' = [sync EXCEPT ![p] = IF r.exc = "" THEN [@ EXCEPT !.f = @ + 1]
                                          ELSE Raise(@, r.exc)]
    /\ UNCHANGED <<pure, remote, db, live, tainted, leaked>>

\* line 174: fetcher.version returns and store(release) returns
syncer_single(p) ==
    /\ p \in live
    /\ sync[p].pc = "single"
    /\ ~Waits(p)
    /\ LET r == StepStore(p)
       IN  /\ r.exc = ""
           /\ session' = [session EXCEPT ![p] = r.ses]
           /\ tainted' = [tainted EXCEPT ![p] = @ \ {r.vid}]
    /\ sync' = [sync EXCEPT ![p].pc = "stored", ![p].rpc = TRUE]
    /\ UNCHANGED <<pure, remote, db, live, leaked>>

\* line 174: fetcher.version returns and store(release) raises
syncer_single_raises(p) ==
    /\ p \in live
    /\ sync[p].pc = "single"
    /\ ~Waits(p)
    /\ LET r == StepStore(p)
       IN  /\ r.exc # ""
           /\ session' = [session EXCEPT ![p] = r.ses]
           /\ sync' = [sync EXCEPT ![p] = Raise([@ EXCEPT !.rpc = TRUE], r.exc)]
    /\ UNCHANGED <<pure, remote, db, live, tainted, leaked>>

\* line 174: fetcher.version raises
syncer_single_fetch_raises(p) ==
    /\ p \in live
    /\ sync[p].pc = "single"
    /\ sync' = [sync EXCEPT ![p] = Raise([@ EXCEPT !.rpc = TRUE], "TransportError")]
    /\ UNCHANGED <<pure, remote, db, session, live, tainted, leaked>>

\* line 179: the last commit
syncer_commit(p) ==
    /\ p \in live
    /\ \/ sync[p].pc = "stored"
       \/ sync[p].pc = "final" /\ sync[p].f > Len(sync[p].projects)
    /\ Commit(p)
    /\ sync' = [sync EXCEPT ![p].pc = "done"]
    /\ UNCHANGED <<pure, remote, live>>

\* the process ends and a new one starts: its session is gone
process_exit(p) ==
    /\ p \in live
    /\ sync[p].pc \in {"done", "raised"}
    /\ session' = [session EXCEPT ![p] = EmptyTables]
    /\ tainted' = [tainted EXCEPT ![p] = {}]
    /\ sync' = [sync EXCEPT ![p] = IdleSync]
    /\ UNCHANGED <<pure, remote, db, live, leaked>>

\* the flush of an INSERT finds its key held by an open transaction
flush_blocks(p) ==
    /\ p \in live
    /\ AtStore(p)
    /\ sync[p].blocked = {}
    /\ StepKeys(p) \cap PendingKeys(p) # {}
    /\ sync' = [sync EXCEPT ![p].blocked = StepKeys(p) \cap PendingKeys(p)]
    /\ UNCHANGED <<pure, remote, db, session, live, tainted, leaked>>

\* the other transaction committed the key: flush() raises IntegrityError,
\* which rolls the transaction of p back; no except clause of lines 83-103
\* names it
flush_raises(p) ==
    /\ p \in live
    /\ sync[p].blocked \cap InsertedKeys(db, EmptyTables) # {}
    /\ session' = [session EXCEPT ![p] = EmptyTables]
    /\ tainted' = [tainted EXCEPT ![p] = {}]
    /\ sync' = [sync EXCEPT ![p] = Raise([@ EXCEPT !.blocked = {}], "IntegrityError")]
    /\ UNCHANGED <<pure, remote, db, live, leaked>>

\* the other transaction ended without a commit: the INSERT goes ahead
flush_resumes(p) ==
    /\ p \in live
    /\ sync[p].blocked # {}
    /\ sync[p].blocked \cap (InsertedKeys(db, EmptyTables) \cup PendingKeys(p)) = {}
    /\ sync' = [sync EXCEPT ![p].blocked = {}]
    /\ UNCHANGED <<pure, remote, db, session, live, tainted, leaked>>

(***************************************************************************)
(* Specification: one process.                                             *)
(***************************************************************************)
\* no record is on its way
PureOff ==
    [stage |-> "off", raw |-> EmptyDict, filtered |-> EmptyDict, rec |-> EmptyDict,
     merged |-> Result("", EmptyTables, 0, 0)]

InitCommon ==
    /\ db = EmptyTables
    /\ session = [p \in Procs |-> EmptyTables]
    /\ sync = [p \in Procs |-> IdleSync]
    /\ tainted = [p \in Procs |-> {}]
    /\ leaked = {}

Init ==
    /\ remote \in Catalogs
    /\ live = {1}
    /\ pure = PureOff
    /\ InitCommon

Next ==
    \/ \E p \in Procs, project \in ArgProjects, version \in ArgVersions :
            syncer_call(p, project, version)
    \/ \E p \in Procs : syncer_packages_raises(p)
    \/ \E p \in Procs : pool_spawn(p)
    \/ \E p \in Procs : fetch_returns(p)
    \/ \E p \in Procs : fetch_raises(p)
    \/ \E p \in Procs : imap_next(p)
    \/ \E p \in Procs : imap_raises(p)
    \/ \E p \in Procs : syncer_store(p)
    \/ \E p \in Procs : syncer_store_raises(p)
    \/ \E p \in Procs : syncer_commit_project(p)
    \/ \E p \in Procs : imap_stops(p)
    \/ \E p \in Procs : syncer_final_pass(p)
    \/ \E p \in Procs : syncer_single(p)
    \/ \E p \in Procs : syncer_single_raises(p)
    \/ \E p \in Procs : syncer_single_fetch_raises(p)
    \/ \E p \in Procs : syncer_commit(p)
    \/ \E p \in Procs : process_exit(p)

Spec == Init /\ [][Next]_vars

(***************************************************************************)
(* Specification: two processes synchronize into one database.             *)
(***************************************************************************)
\* a catalog of two packages, one good and one that lacks its version
CatalogTwo ==
    Catalog(<<PkgA, PkgB>>,
            (PkgA :> <<Ver1>>) @@ (PkgB :> <<Ver1>>),
            (<<PkgA, Ver1>> :> RawPlain(PkgA, Ver1)) @@ (<<PkgB, Ver1>> :> RawNoVersion(PkgB)))

InitConc ==
    /\ remote = CatalogTwo
    /\ live = Procs
    /\ pure = PureOff
    /\ InitCommon

NextConc ==
    \/ Next
    \/ \E p \in Procs : flush_blocks(p)
    \/ \E p \in Procs : flush_raises(p)
    \/ \E p \in Procs : flush_resumes(p)

SpecConc == InitConc /\ [][NextConc]_vars

(***************************************************************************)
(* Specification: one process, and the remote catalog changes between the  *)
(* calls of syncer().                                                      *)
(***************************************************************************)
\* the remote index after most of its packages were removed
CatalogShrunk ==
    Catalog(<<PkgC>>,
            (PkgC :> <<Ver1>>),
            (<<PkgC, Ver1>> :> RawPlain(PkgC, Ver1)))

\* the remote index drops packages, between two calls of syncer()
remote_changes ==
    /\ \A p \in live : Callable(p)
    /\ remote # CatalogShrunk
    /\ remote' = CatalogShrunk
    /\ UNCHANGED <<pure, db, session, sync, live, tainted, leaked>>

NextDrift ==
    \/ Next
    \/ remote_changes

SpecDrift == Init /\ [][NextDrift]_vars

(***************************************************************************)
(* Specification: one raw record goes through filter_dict, the rest of     *)
(* PyPIFetcher.version and store(), for every record of a bounded set.     *)
(***************************************************************************)
\* the values a field of a raw record takes
FieldValues ==
    {None, S(<<>>), S(SentinelUnknown), S(SentinelNone), S(<<"x">>), L(<<>>)}

\* raw records over a required and two optional keys, each absent or with
\* any of the field values
FilterInputs ==
    UNION {[keys -> FieldValues] : keys \in SUBSET {"name", "author", "license"}}

\* the items of a project_url list
Purls ==
    {<<"D", "o", "c", "s", ",", " ", "d", ".", "x">>,
     <<" ", "D", "o", "c", "s", " ", ",", "u", ".", "x", " ">>,
     <<"D", "o", "c", "s", ",">>,
     <<"D", "o", "c", "s", ",", "d", ",", "x">>}

PurlLists ==
    {<<a>> : a \in Purls} \cup {<<a, b>> : a \in Purls, b \in Purls}

\* the fields store() merges, each absent or present
MergeOptions ==
    [home_page : {None, S(<<"h", ".", "x">>)},
     bugtrack_url : {None, S(<<"b", ".", "x">>)},
     license : {None, S(<<"M", "I", "T">>)},
     maintainer : {None, S(<<"b", "o", "b">>)},
     project_url : {None} \cup {L(l) : l \in PurlLists}]

\* raw records of one release with the merged fields
MergeInputs ==
    {[k \in {"name", "version"} \cup DOMAIN o |->
        IF k = "name" THEN S(PkgA) ELSE IF k = "version" THEN S(Ver1) ELSE o[k]]
     : o \in MergeOptions}

PureInputs == FilterInputs \cup MergeInputs

\* line 46: filter_dict(data, required=set(["name", "version"]))
pure_filter ==
    /\ pure.stage = "raw"
    /\ pure' = [pure EXCEPT !.stage = "filtered",
                            !.filtered = filter_dict(pure.raw, RequiredKeys)]
    /\ UNCHANGED <<remote, db, session, sync, live, tainted, leaked>>

\* lines 46-63: PyPIFetcher.version returns the normalized record
pure_version ==
    /\ pure.stage = "filtered"
    /\ pure' = [pure EXCEPT !.stage = "normalized", !.rec = Normalize(pure.raw)]
    /\ UNCHANGED <<remote, db, session, sync, live, tainted, leaked>>

\* lines 94-144: store(release) on empty tables
pure_store ==
    /\ pure.stage = "normalized"
    /\ pure' = [pure EXCEPT !.stage = "merged",
                            !.merged = store(EmptyTables, EmptyTables,
                                             [projects |-> {}, versions |-> {}], pure.rec)]
    /\ UNCHANGED <<remote, db, session, sync, live, tainted, leaked>>

InitPure ==
    /\ remote = CatalogGood
    /\ live = {}
    /\ pure \in {[PureOff EXCEPT !.stage = "raw", !.raw = r] : r \in PureInputs}
    /\ InitCommon

NextPure ==
    \/ pure_filter
    \/ pure_version
    \/ pure_store

SpecPure == InitPure /\ [][NextPure]_vars

(***************************************************************************)
(* Properties.                                                             *)
(***************************************************************************)
\* syncer() was called with neither project nor version and got its fetcher
CatalogRun(s) == s.pc # "idle" /\ s.fetcher /\ s.project = None /\ s.version = None

\* syncer(project, version) with both given
SingleRun(s) == s.pc # "idle" /\ s.project # None /\ s.version # None

\* the committed tables hold a Version row for the release
Committed(release) ==
    \E pid \in ProjectIds(db, release["name"].v) :
        VersionIds(db, pid, release["version"].v) # {}

Storable(release) == {"name", "version"} \subseteq DOMAIN release

\* C1: in a whole-catalog run in which the fetch of one package raises, no
\* exception leaves the run, and once the run is over every release of a
\* package whose fetch returned is committed.
C1_FetchFailureIsolated ==
    \A p \in Procs :
        (CatalogRun(sync[p]) /\ \E i \in DOMAIN sync[p].status : sync[p].status[i] = "err")
        => /\ sync[p].pc # "raised"
           /\ sync[p].pc = "done" =>
                \A i \in DOMAIN sync[p].status :
                    sync[p].status[i] = "ok" =>
                        \A r \in Range(PyPIFetcher_project(remote, sync[p].projects[i])) :
                            Storable(r) => Committed(r)

\* the scalar attributes of a Version and the fields they are merged from
ScalarFields ==
    [summary |-> "summary", description |-> "description", author |-> "author",
     author_email |-> "author_email", maintainer |-> "maintainer",
     maintainer_email |-> "maintainer_email", license |-> "license",
     requires_python |-> "requires_python", download_uri |-> "download_url"]

\* the Version rows of any project called name with the given version
RowsOf(tables, name, ver) ==
    {i \in DOMAIN tables.versions :
        /\ tables.versions[i].version = ver
        /\ tables.versions[i].project \in ProjectIds(tables, name)}

\* C2: after a single-version sync, the first or a repeated one, there is
\* exactly one Version row for the pair and each of its scalar attributes
\* equals the field of the normalized record.
C2_SingleSyncIdempotent ==
    \A p \in Procs :
        (SingleRun(sync[p]) /\ sync[p].pc = "done") =>
            LET rec  == PyPIFetcher_version(remote, sync[p].project.v, sync[p].version.v)
                rows == RowsOf(db, rec["name"].v, rec["version"].v)
            IN  /\ Cardinality(rows) = 1
                /\ \A i \in rows : \A a \in DOMAIN ScalarFields :
                        db.versions[i][a] = Get(rec, ScalarFields[a], S(<<>>))

NoDuplicateProjects(tables) ==
    \A i, k \in DOMAIN tables.projects :
        tables.projects[i].name = tables.projects[k].name => i = k

\* a step of the final pass of p: one store_project call
FinalPassStep(p) ==
    /\ sync[p].pc = "final"
    /\ sync'[p].pc = "final"
    /\ sync'[p].f = sync[p].f + 1

\* C3: no table state, committed or seen by a session, holds two Project
\* rows of one name; a store_project call for a name that exists creates
\* nothing, and a call for an absent name creates exactly one row.
C3_FindOrCreateProject ==
    /\ [](/\ NoDuplicateProjects(db)
          /\ \A p \in Procs : NoDuplicateProjects(View(session[p], db)))
    /\ [][\A p \in Procs :
            FinalPassStep(p) =>
                LET name   == sync[p].projects[sync[p].f]
                    before == View(session[p], db)
                    after  == View(session'[p], db')
                IN  /\ Cardinality(ProjectIds(after, name)) = 1
                    /\ ProjectIds(before, name) # {} => after = before
                    /\ ProjectIds(before, name) = {} =>
                          Cardinality(DOMAIN after.projects)
                            = Cardinality(DOMAIN before.projects) + 1]_vars

\* the final pass is over: it found a committed Project and created another
C3_Witness ==
    \E p \in Procs :
        /\ sync[p].pc = "final"
        /\ sync[p].f > Len(sync[p].projects)
        /\ \E i, k \in DOMAIN sync[p].projects :
              /\ ProjectIds(db, sync[p].projects[i]) # {}
              /\ ProjectIds(session[p], sync[p].projects[k]) # {}

\* syncer() was called with a version and no project
InvalidCall(s) == s.pc # "idle" /\ s.project = None /\ s.version # None

\* C4: a call with a version and no project raises TypeError with no
\* fetcher made, no remote call, and the session and the committed tables
\* as they were.
C4_InvalidCallDoesNothing ==
    /\ [](\A p \in Procs :
            InvalidCall(sync[p]) =>
                /\ sync[p].pc = "raised"
                /\ sync[p].exc = "TypeError"
                /\ ~sync[p].fetcher
                /\ ~sync[p].rpc)
    /\ [][\A p \in Procs :
            (InvalidCall(sync'[p]) /\ sync'[p] # sync[p]) =>
                (db' = db /\ session' = session)]_vars

\* an invalid call was made on a store that holds rows
C4_Witness ==
    \E p \in Procs :
        /\ InvalidCall(sync[p])
        /\ DOMAIN db.projects # {}
        /\ DOMAIN db.versions # {}

\* C5: when a whole-catalog run has returned, every enumerated name has a
\* committed Project row.
C5_EveryPackageHasProject ==
    \A p \in Procs :
        (CatalogRun(sync[p]) /\ sync[p].pc = "done") =>
            \A i \in DOMAIN sync[p].projects :
                Cardinality(ProjectIds(db, sync[p].projects[i])) = 1

\* a whole-catalog run returned and one of its packages has no version
C5_Witness ==
    \E p \in Procs :
        /\ CatalogRun(sync[p])
        /\ sync[p].pc = "done"
        /\ \E i \in DOMAIN sync[p].projects :
              package_releases(remote, sync[p].projects[i]) = <<>>

\* C6: the committed tables never hold a Version row that was written by a
\* unit of work that failed partway through a project's versions.
C6_FailedUnitNeverCommitted == leaked = {}

\* C7: the pool never runs more than PoolSize fetches at once.
C7_PoolBound ==
    \A p \in Procs : Cardinality(InFlight(sync[p])) <= PoolSize

\* the pool is full and a further package waits for a slot
C7_Witness ==
    \E p \in Procs :
        /\ Cardinality(InFlight(sync[p])) = PoolSize
        /\ Len(sync[p].status) < Len(sync[p].projects)

\* C8: when two processes create the Project of one name at the same time,
\* the unique-constraint violation does not end the run of either, and one
\* Project row of that name results.
C8_ConflictRecovered ==
    /\ \A p \in Procs : sync[p].exc # "IntegrityError"
    /\ NoDuplicateProjects(db)

\* C9: in a whole-project or whole-catalog run, a record that lacks a
\* required key never ends the run with an error.
C9_MissingKeySkipped ==
    \A p \in Procs : sync[p].version = None => sync[p].exc # "KeyError"

\* out is the sorted sequence of the distinct members of items
SortedDistinct(out, items) ==
    /\ Range(out) = Range(items)
    /\ \A i, k \in DOMAIN out : i < k => StrLess(out[i], out[k])

\* C10: every release a fetch returned carries a classifiers field, the
\* sorted duplicate-free sequence of the raw record's classifiers.
C10_ClassifiersSorted ==
    \A p \in Procs : \A i \in DOMAIN sync[p].status :
        sync[p].status[i] = "ok" =>
            \A v \in Range(package_releases(remote, sync[p].projects[i])) :
                LET raw == release_data(remote, sync[p].projects[i], v)
                    out == PyPIFetcher_version(remote, sync[p].projects[i], v)
                IN  ("classifiers" \in DOMAIN raw /\ raw["classifiers"].t = "list") =>
                        /\ "classifiers" \in DOMAIN out
                        /\ SortedDistinct(out["classifiers"].v, raw["classifiers"].v)

\* a null or sentinel value of a raw record
NullOrSentinel(x) ==
    x.t = "none" \/ (x.t = "str" /\ x.v \in {SentinelNone, SentinelUnknown})

\* an empty string or collection
EmptyValue(x) == x.t \in {"str", "list"} /\ x.v = <<>>

\* the normalized record has no optional key of a null or sentinel value
OptionalStripped(raw, rec) ==
    \A k \in DOMAIN raw \ RequiredKeys : NullOrSentinel(raw[k]) => k \notin DOMAIN rec

\* C11 as stated: the normalized record has no optional key whose raw value
\* is null or a sentinel, and it has every required key of the raw record,
\* whatever its value.
C11_RequiredAlwaysKept ==
    pure.stage \in {"normalized", "merged"} =>
        /\ OptionalStripped(pure.raw, pure.rec)
        /\ \A k \in DOMAIN pure.raw \cap RequiredKeys : k \in DOMAIN pure.rec

\* C11: the normalized record has no optional key whose raw value is null
\* or a sentinel, and it has, with its raw value, every required key of the
\* raw record whose value is neither null nor empty, a sentinel included.
C11_SentinelsStripped ==
    pure.stage \in {"normalized", "merged"} =>
        /\ OptionalStripped(pure.raw, pure.rec)
        /\ \A k \in DOMAIN pure.raw \cap RequiredKeys :
              (pure.raw[k].t # "none" /\ ~EmptyValue(pure.raw[k])) =>
                  (k \in DOMAIN pure.rec /\ pure.rec[k] = pure.raw[k])

\* a record with a sentinel name and a sentinel author was normalized
C11_Witness ==
    /\ pure.stage = "normalized"
    /\ DOMAIN pure.raw = {"name", "author", "license"}
    /\ pure.raw["name"] = S(SentinelUnknown)
    /\ pure.raw["author"] = S(SentinelUnknown)
    /\ pure.raw["license"] = None
    /\ DOMAIN pure.rec = {"name"}

\* C16 as stated: filter_dict drops a key of an empty list and keeps a key
\* of the empty string.
C16_EmptyStringKept ==
    pure.stage # "off" /\ pure.stage # "raw" =>
        \A k \in DOMAIN pure.raw :
            /\ pure.raw[k] = L(<<>>) => k \notin DOMAIN pure.filtered
            /\ pure.raw[k] = S(<<>>) =>
                  (k \in DOMAIN pure.filtered /\ pure.filtered[k] = S(<<>>))

\* C16: filter_dict drops a key of an empty list and a key of the empty
\* string alike.
C16_EmptyDropped ==
    pure.stage # "off" /\ pure.stage # "raw" =>
        \A k \in DOMAIN pure.raw :
            EmptyValue(pure.raw[k]) => k \notin DOMAIN pure.filtered

\* a record with an empty string, an empty list and a kept value was filtered
C16_Witness ==
    /\ pure.stage = "filtered"
    /\ \E k \in DOMAIN pure.raw : pure.raw[k] = S(<<>>)
    /\ \E k \in DOMAIN pure.raw : pure.raw[k] = L(<<>>)
    /\ DOMAIN pure.filtered # {}

\* the label and the URL of a "label, url" item, split on its first comma
SplitFirst(purl) ==
    LET i == CHOOSE k \in DOMAIN purl :
                purl[k] = "," /\ \A m \in 1..(k - 1) : purl[m] # ","
    IN  <<Strip(SubSeq(purl, 1, i - 1)), Strip(SubSeq(purl, i + 1, Len(purl)))>>

\* the entries of the items, a later label over an earlier one
RECURSIVE LabelledUris(_, _)
LabelledUris(uris, purls) ==
    IF purls = <<>> THEN uris
    ELSE LabelledUris(Put(uris, SplitFirst(Head(purls))[1], SplitFirst(Head(purls))[2]),
                      Tail(purls))

\* the uris mapping the record asks for
ExpectedUris(rec) ==
    LET bug  == IF "bugtrack_url" \in DOMAIN rec
                THEN Put(EmptyDict, Bugtracker, rec["bugtrack_url"].v) ELSE EmptyDict
        home == IF "home_page" \in DOMAIN rec
                THEN Put(bug, HomePage, rec["home_page"].v) ELSE bug
    IN  LabelledUris(home, Get(rec, "project_url", L(<<>>)).v)

\* the Version row store() returned
MergedRow == pure.merged.ses.versions[pure.merged.vid]

\* C12: store() returns, and the uris of the Version are the Bugtracker and
\* Home page entries of the record plus one entry per project_url item,
\* split on its first comma and trimmed, a later label over an earlier one.
C12_UrisAssembled ==
    (pure.stage = "merged" /\ Storable(pure.rec)) =>
        /\ pure.merged.exc = ""
        /\ MergedRow.uris = D(ExpectedUris(pure.rec))

\* C15: store() sets every scalar attribute of the Version to the field of
\* the same name of the record, or to the empty string without the field.
C15_ScalarsOverwritten ==
    (pure.stage = "merged" /\ pure.merged.exc = "") =>
        \A a \in DOMAIN ScalarFields :
            MergedRow[a] = Get(pure.rec, ScalarFields[a], S(<<>>))

\* C13: no committed Version has a uris entry of an empty value.
C13_NoEmptyUri ==
    \A i \in DOMAIN db.versions :
        db.versions[i].uris.t = "dict" =>
            \A label \in DOMAIN db.versions[i].uris.v :
                db.versions[i].uris.v[label] # <<>>

\* C14: a committed Project or Version row stays committed, with its name
\* or its project and version, through every step, also when the remote
\* catalog no longer has it.
C14_NothingDeleted ==
    [][/\ \A i \in DOMAIN db.projects :
            i \in DOMAIN db'.projects /\ db'.projects[i].name = db.projects[i].name
       /\ \A i \in DOMAIN db.versions :
            /\ i \in DOMAIN db'.versions
            /\ db'.versions[i].project = db.versions[i].project
            /\ db'.versions[i].version = db.versions[i].version]_vars

\* a whole-catalog run over the current catalog returned, and the committed
\* tables hold a Version of a Project the catalog does not list
C14_Witness ==
    \E p \in Procs :
        /\ CatalogRun(sync[p])
        /\ sync[p].pc = "done"
        /\ sync[p].projects = remote.packages
        /\ \E i \in DOMAIN db.versions :
              /\ db.versions[i].project \in DOMAIN db.projects
              /\ db.projects[db.versions[i].project].name \notin Range(remote.packages)

\* syncer() was called without a version and uses the pool
PoolRun(s) == s.fetcher /\ s.version = None /\ s.pc \in {"pool", "storing", "final", "done"}

\* the number of projects whose loop body, commit included, is over
BodiesDone(s) == IF s.pc = "storing" THEN s.taken - 1 ELSE s.taken

\* a step of a fetch task of the pool of p
WorkerStep(p) ==
    /\ sync[p].pc \in {"pool", "storing"}
    /\ sync'[p].pc = sync[p].pc
    /\ sync'[p].status # sync[p].status

\* the project names of the Version rows that differ between two sessions
TouchedNames(old, new) ==
    {new.projects[new.versions[i].project].name :
        i \in {v \in DOMAIN new.versions :
                  v \notin DOMAIN old.versions \/ old.versions[v] # new.versions[v]}}

\* C17: in a run that uses the pool, the projects before the one being
\* stored are all committed; a step of a fetch task changes neither the
\* session nor the committed tables; a store step writes only Version rows
\* of the project imap yielded last, and only the per-project commit ends
\* the work on a project.
C17_StoredInEnumerationOrder ==
    /\ [](\A p \in Procs :
            PoolRun(sync[p]) =>
                \A i \in 1..BodiesDone(sync[p]) :
                    \A r \in Range(PyPIFetcher_project(remote, sync[p].projects[i])) :
                        Committed(r))
    /\ [][\A p \in Procs :
            /\ WorkerStep(p) => (session' = session /\ db' = db)
            /\ (sync[p].pc = "storing" /\ sync'[p].pc = "storing") =>
                  /\ db' = db
                  /\ sync'[p].taken = sync[p].taken
                  /\ TouchedNames(View(session[p], db), View(session'[p], db))
                        \subseteq {sync[p].projects[sync[p].taken]}
            /\ (sync[p].pc = "pool" /\ sync'[p].pc = "storing") =>
                  (sync'[p].taken = sync[p].taken + 1 /\ session' = session /\ db' = db)]_vars

\* the fetch of the second project is over while the first one still runs,
\* and nothing is stored: the loop waits for the first
C17_Witness ==
    \E p \in Procs :
        /\ sync[p].pc = "pool"
        /\ sync[p].taken = 0
        /\ Len(sync[p].status) >= 2
        /\ sync[p].status[1] = "running"
        /\ sync[p].status[2] = "ok"
        /\ PyPIFetcher_project(remote, sync[p].projects[2]) # <<>>
        /\ session[p] = EmptyTables
        /\ db = EmptyTables

====
